---------------------------- MODULE Spec2Model ----------------------------
(***************************************************************************)
(* Model of serverless-storage: the acquireLock retry loop (utils), the    *)
(* DynamoLockingManager over a DynamoDB table with conditional writes and  *)
(* an optional TTL, and the LockableStorageManager facade.                 *)
(*                                                                         *)
(* Five specifications share the definitions of the code:                  *)
(*   SpecAcquire  one acquireLock call against an arbitrary ILockingManager*)
(*   SpecLock     concurrent callers on one DynamoLockingManager; every    *)
(*                call is one conditional request to the table, so a call  *)
(*                is one step. acquireLock reaches the table only through  *)
(*                lock(p), which every caller may issue at any time.       *)
(*   SpecFacade   a LockableStorageManager beside its bare backends        *)
(*   SpecStorage  one IStorageManager implementation and its caller        *)
(*   SpecContend  one acquireLock on a DynamoLockingManager among other    *)
(*                callers (SpecContendFair: the activation keeps running)  *)
(***************************************************************************)
EXTENDS Integers, Sequences, FiniteSets, TLC

\* ------------------------------------------------------------------ bounds
\* Largest explicit maxRetry argument tried.
MaxRetryBound == 3
\* Number of concurrent callers of one DynamoLockingManager.
NumCallers == 2
\* The clock (seconds) runs from 0 to MaxTime.
MaxTime == 1

\* ------------------------------------------------------ program constants
\* acquireLock(..., maxRetry: number = 5, ...)
DefaultMaxRetry == 5
\* acquireLock(..., retryWait: number = 400)
DefaultRetryWait == 400
\* constructor(..., private timeToLiveDurationInSeconds: number = 900)
DefaultTimeToLive == 900

\* An optional argument at the call site: given with a value, or left out.
Given(v) == [given |-> TRUE, value |-> v]
Omitted == [given |-> FALSE, value |-> 0]

\* Paths used as lock keys / storage keys (opaque strings to the code).
Paths == {"a.json", "b.json"}

\* Explicit retryWait arguments tried (milliseconds).
RetryWaits == {0, 100}

VARIABLES
  \* ---- acquireLock activation (SpecAcquire)
  pathToLock,   \* argument pathToLock
  maxRetry,     \* parameter maxRetry after defaulting
  retryWait,    \* parameter retryWait after defaulting
  acquireArgs,  \* the optional arguments of the call, as written at the call site
  i,            \* loop variable i
  pc,           \* position in acquireLock: "for", "call", "wait", "done"
  events,       \* what the activation has done so far: lock() calls and waits
  outcome,      \* how the activation ended: None, Returned, or Thrown(error)
  \* ---- DynamoLockingManager and its callers (SpecLock)
  table,        \* the DynamoDB lock table: id (path) -> item, or NoItem
  now,          \* wall clock, seconds since the epoch (getTimestamp)
  timeToLiveDurationInSeconds,  \* constructor parameter, after defaulting
  timeToLiveArg,  \* the constructor's fifth argument, as written at the call site
  lastCall,     \* the locking-manager call that completed last, and its result
  granted,      \* <<c, p>>: c's lock(p) returned true and the record stands
  holders,      \* <<c, p>>: c's lock(p) returned true and c has not called unlock(p)
  \* ---- LockableStorageManager beside its bare backends (SpecFacade)
  params,       \* this.params: which of storageManager / lockingManager was supplied
  ctorOutcome,  \* how `new LockableStorageManager(params)` ended
  files,        \* the storage backend behind the facade: path -> file
  twinFiles,    \* an identical storage backend, called directly
  twinTable,    \* an identical lock table, whose locking manager is called directly
  lastOp,       \* the facade call made last: method and arguments
  facadeRet,    \* what that facade call returned or threw
  directRet,    \* what the same call on the bare backend returned or threw
  invoked,      \* the backend invocations the facade call made, in order
  changed,      \* whether the facade call changed any backend state
  \* ---- one IStorageManager implementation and its caller (SpecStorage)
  backend,      \* which implementation: LocalFile, S3, AzureBlob, Dynamo, Cosmos
  appendPreWrite, \* params.appendPreWrite of a Dynamo / Cosmos manager
  store,        \* what the backing store holds: path -> file, blob or document
  lastStore,    \* the storage call that completed last, and its result
  wrote,        \* per path, the write or delete that completed last
  \* ---- one acquireLock activation among other callers (SpecContend)
  heldAtStart,  \* whether the caller of acquireLock held pathToLock already
  freedAt       \* Len(events) when the record of pathToLock was last removed
                \* since acquireLock was called; -1 if it was not

acquireVars == <<pathToLock, maxRetry, retryWait, acquireArgs, i, pc, events,
                 outcome>>
lockVars == <<table, now, timeToLiveDurationInSeconds, timeToLiveArg, lastCall,
              granted, holders>>

facadeVars == <<params, ctorOutcome, files, twinFiles, twinTable, lastOp,
                facadeRet, directRet, invoked, changed>>

storageVars == <<backend, appendPreWrite, store, lastStore, wrote>>

contendVars == <<heldAtStart, freedAt>>

vars == <<acquireVars, lockVars, facadeVars, storageVars, contendVars>>

Callers == 1..NumCallers

None == [kind |-> "none"]
Returned == [kind |-> "returned"]
Thrown(e) == [kind |-> "thrown", error |-> e]

\* ------------------------------------------------------------ utils.ts
\* new AcquireLockError(message): name = 'AcquireLockError', message kept.
AcquireLockError(message) == [name |-> "AcquireLockError", message |-> message]

\* `Could not acquire lock on path ${pathToLock}.`
\* The template literal, as the sequence of its pieces.
AcquireLockMessage(p) == <<"Could not acquire lock on path ", p, ".">>

NoError == [name |-> "", message |-> <<>>]

\* Errors an ILockingManager implementation's lock() may reject with.
BackendErrors ==
  { [name |-> "NetworkingError", message |-> <<"connect ETIMEDOUT">>],
    [name |-> "ThrottlingException", message |-> <<"Rate exceeded">>] }

\* A settled promise of lock(): resolved with a Boolean, or rejected.
Resolve(b) == [kind |-> "resolve", value |-> b, error |-> NoError]
Reject(e) == [kind |-> "reject", value |-> FALSE, error |-> e]

\* A variant with no default value: an omitted maxRetry stays unset.
DefaultedMaxRetryNone(arg) == arg.value
\* Default parameter values: maxRetry = 5, retryWait = 400.
DefaultedMaxRetry(arg) == IF arg.given THEN arg.value ELSE DefaultMaxRetry
DefaultedRetryWait(arg) == IF arg.given THEN arg.value ELSE DefaultRetryWait

\* for (let i = 0; i < maxRetry; i++)          -- the loop condition
LoopCondOffByOne(iv, mr) == iv <= mr
LoopCondDoWhile(iv, mr) == iv = 0 \/ iv < mr
LoopCond(iv, mr) == iv < mr

\* if (i < maxRetry) { await waitForTime(retryWait); }   -- the wait guard
WaitCond(iv, mr) == iv < mr

\* What one `await lockingManager.lock(pathToLock)` does to the activation:
\*   a rejected promise leaves acquireLock with that error ("propagate"),
\*   `if (lockAcquired) return;` returns on true ("return"),
\*   otherwise the loop body goes on ("retry").
Step(d, e) == [do |-> d, error |-> e]
OnLockOutcomeSwallow(o) ==
  IF o.kind = "resolve" /\ o.value THEN Step("return", NoError)
  ELSE Step("retry", NoError)
OnLockOutcomeNoEarlyReturn(o) ==
  IF o.kind = "reject" THEN Step("propagate", o.error)
  ELSE Step("retry", NoError)
OnLockOutcome(o) ==
  IF o.kind = "reject" THEN Step("propagate", o.error)
  ELSE IF o.value THEN Step("return", NoError)
  ELSE Step("retry", NoError)

\* ILockingManager.lock(path): Promise<Boolean> -- any implementation may
\* resolve true, resolve false, or reject.
LockOutcomes == {Resolve(TRUE), Resolve(FALSE)} \cup {Reject(e) : e \in BackendErrors}

LockEvent(p, o) == [ev |-> "lock", path |-> p, out |-> o, ms |-> 0]
WaitEvent(ms) == [ev |-> "wait", path |-> "", out |-> Resolve(FALSE), ms |-> ms]

\* --------------------------------------- dynamo_locking_manager.ts
\* No item under a key of the table.
NoItem == [id |-> "", createdAt |-> 0, expireAt |-> 0]

\* A completed call: who called what on which path, what it returned, and
\* the item under that path just before and just after the call.
NoCall == [caller |-> 0, op |-> "none", path |-> "", ret |-> FALSE,
           before |-> NoItem, after |-> NoItem]
Call(c, op, p, r, tbl, tbl2) ==
  [caller |-> c, op |-> op, path |-> p, ret |-> r,
   before |-> tbl[p], after |-> tbl2[p]]

\* timeToLiveDurationInSeconds: number = 900
DefaultedTimeToLive(arg) == IF arg.given THEN arg.value ELSE DefaultTimeToLive

\* function getTimestamp(): seconds since the epoch.
getTimestamp == now

\* A variant whose expireAt is the duration alone.
LockParamsExpireAtDuration(path, createdAt) ==
  [ Item |-> [id |-> path, createdAt |-> createdAt,
              expireAt |-> timeToLiveDurationInSeconds],
    ConditionExpression |-> "attribute_not_exists(id)" ]
\* lock(): the params of the conditional put.
LockParamsNoCondition(path, createdAt) ==
  [ Item |-> [id |-> path, createdAt |-> createdAt,
              expireAt |-> createdAt + timeToLiveDurationInSeconds],
    ConditionExpression |-> "" ]
LockParams(path, createdAt) ==
  [ Item |-> [id |-> path, createdAt |-> createdAt,
              expireAt |-> createdAt + timeToLiveDurationInSeconds],
    ConditionExpression |-> "attribute_not_exists(id)" ]

\* unlock(): the params of the conditional delete.
UnlockParamsNoCondition(path) ==
  [ Key |-> path, ConditionExpression |-> "" ]
UnlockParams(path) ==
  [ Key |-> path, ConditionExpression |-> "attribute_exists(id)" ]

\* DocumentClient.put(params).promise() against the table: rejects on a
\* failed request (fault) and on a failed condition; otherwise stores Item.
DynamoPutAppliesThenFails(tbl, request, fault) ==
  IF fault
    THEN [table |-> [tbl EXCEPT ![request.Item.id] = request.Item],
          error |-> "NetworkingError"]
  ELSE IF request.ConditionExpression = "attribute_not_exists(id)"
          /\ tbl[request.Item.id] # NoItem
    THEN [table |-> tbl, error |-> "ConditionalCheckFailedException"]
  ELSE [table |-> [tbl EXCEPT ![request.Item.id] = request.Item], error |-> "none"]
DynamoPut(tbl, request, fault) ==
  IF fault THEN [table |-> tbl, error |-> "NetworkingError"]
  ELSE IF request.ConditionExpression = "attribute_not_exists(id)"
          /\ tbl[request.Item.id] # NoItem
    THEN [table |-> tbl, error |-> "ConditionalCheckFailedException"]
  ELSE [table |-> [tbl EXCEPT ![request.Item.id] = request.Item], error |-> "none"]

\* DocumentClient.delete(request).promise().
DynamoDelete(tbl, request, fault) ==
  IF fault THEN [table |-> tbl, error |-> "NetworkingError"]
  ELSE IF request.ConditionExpression = "attribute_exists(id)"
          /\ tbl[request.Key] = NoItem
    THEN [table |-> tbl, error |-> "ConditionalCheckFailedException"]
  ELSE [table |-> [tbl EXCEPT ![request.Key] = NoItem], error |-> "none"]

\* DocumentClient.get(params).promise(): response.Item, or a rejection.
DynamoGet(tbl, key, fault) ==
  IF fault THEN [found |-> FALSE, error |-> "NetworkingError"]
  ELSE [found |-> tbl[key] # NoItem, error |-> "none"]

\* try { await put; return true } catch (error) { ...; return false }
LockReturn(r) == r.error = "none"
\* try { await delete; return true } catch (error) { ...; return false }
UnlockReturn(r) == r.error = "none"
\* try { return !!response.Item } catch (error) { ...; return false }
IsLockedReturn(r) == r.error = "none" /\ r.found

\* No acquireLock activation runs among the callers.
ContendQuiet ==
  /\ heldAtStart = FALSE
  /\ freedAt = -1

\* Len(events) if this step removes the record of pathToLock (tbl2: the
\* table after the step), else freedAt as it was.
FreedAt(p, tbl2) ==
  IF p = pathToLock /\ table[p] # NoItem /\ tbl2[p] = NoItem
    THEN Len(events) ELSE freedAt

\* The lock side at rest, while another specification runs.
LockQuiet ==
  /\ table = [p \in Paths |-> NoItem]
  /\ now = 0
  /\ timeToLiveArg = Omitted
  /\ timeToLiveDurationInSeconds = DefaultedTimeToLive(timeToLiveArg)
  /\ lastCall = NoCall
  /\ granted = {}
  /\ holders = {}

\* ------------------------------------------ local_file_storage_manager.ts
\* A path of the root directory: no file, or a file with its content.
NoFile == [exists |-> FALSE, data |-> ""]
File(d) == [exists |-> TRUE, data |-> d]

\* Payloads written, and the default handed to read().
Data == {"", "saad-ahmad"}
Fallback == "fallback"

\* Values a method resolves with: void, a boolean, a string.
Void == [t |-> "void", b |-> FALSE, s |-> ""]
Bool(b) == [t |-> "boolean", b |-> b, s |-> ""]
Str(x) == [t |-> "string", b |-> FALSE, s |-> x]
ReturnedValue(v) == [kind |-> "returned", value |-> v]

\* Arguments of a call: (path), (data, path) or (path, __default).
Args(p, d, dflt) == [path |-> p, data |-> d, default |-> dflt]

\* An fs call that fails for a reason other than ENOENT.
FsError == [name |-> "Error", message |-> <<"EACCES: permission denied">>]

\* LocalFileStorageManager.write/read/delete/exists on the directory fs;
\* fault: the fs call fails (permissions, I/O).
\*   write:  writeFileSync, uncaught          read: readFileSync, any error -> __default
\*   delete: unlinkSync, every error caught   exists: existsSync
StorageCall(method, fs, a, fault) ==
  CASE method = "write" ->
         IF fault THEN [ret |-> Thrown(FsError), files |-> fs]
         ELSE [ret |-> ReturnedValue(Void),
               files |-> [fs EXCEPT ![a.path] = File(a.data)]]
    [] method = "read" ->
         IF fault \/ ~fs[a.path].exists
           THEN [ret |-> ReturnedValue(Str(a.default)), files |-> fs]
           ELSE [ret |-> ReturnedValue(Str(fs[a.path].data)), files |-> fs]
    [] method = "delete" ->
         IF fault THEN [ret |-> ReturnedValue(Void), files |-> fs]
         ELSE [ret |-> ReturnedValue(Void), files |-> [fs EXCEPT ![a.path] = NoFile]]
    [] method = "exists" ->
         [ret |-> ReturnedValue(Bool(fs[a.path].exists)), files |-> fs]

\* DynamoLockingManager.lock/unlock/isLocked on the table tbl.
LockingCall(method, tbl, a, fault) ==
  CASE method = "lock" ->
         LET r == DynamoPut(tbl, LockParams(a.path, getTimestamp), fault) IN
         [ret |-> ReturnedValue(Bool(LockReturn(r))), table |-> r.table]
    [] method = "unlock" ->
         LET r == DynamoDelete(tbl, UnlockParams(a.path), fault) IN
         [ret |-> ReturnedValue(Bool(UnlockReturn(r))), table |-> r.table]
    [] method = "isLocked" ->
         [ret |-> ReturnedValue(Bool(IsLockedReturn(DynamoGet(tbl, a.path, fault)))),
          table |-> tbl]

\* ------------------ s3 / azure blob / dynamo / cosmos storage managers
Backends == {"LocalFile", "S3", "AzureBlob", "Dynamo", "Cosmos"}
DocumentBackends == {"Dynamo", "Cosmos"}

\* A request to the cloud store that fails (network, auth, throttling).
RequestError == [name |-> "NetworkingError", message |-> <<"connect ETIMEDOUT">>]

\* JavaScript objects as functions from attribute names; {} and the spread
\* { ...f, ...g }, in which the attributes of g win.
EmptyObject == [k \in {} |-> ""]
Spread(f, g) ==
  [k \in DOMAIN f \cup DOMAIN g |-> IF k \in DOMAIN g THEN g[k] ELSE f[k]]

\* object?.attr for a string attribute (undefined reads as '' under ||), and
\* x || y on strings: '' is falsy.
Attr(obj, k) == IF k \in DOMAIN obj THEN obj[k] ELSE ""
Or(x, y) == IF x = "" THEN y ELSE x

\* A method that resolves with an object.
Obj(f) == [t |-> "object", b |-> FALSE, s |-> "", o |-> f]

\* No document under a key: response.Item / resource is undefined.
NoDocument == EmptyObject

\* The appendPreWrite functions tried: none configured; the one of the test
\* suite; one that also returns the reserved names; one that returns an id.
AppendPreWrites == {"none", "someProps", "reserved", "id"}
AppendPreWrite(cfg, data, path) ==
  CASE cfg = "none" -> EmptyObject
    [] cfg = "someProps" -> [someProps |-> "saad"]
    [] cfg = "reserved" -> [someProps |-> "saad", data |-> "overridden",
                            path |-> "elsewhere", updatedAt |-> -1]
    [] cfg = "id" -> [someProps |-> "saad", id |-> "my-id"]

\* The object write() stores: { ...appendPreWrite(data, path), <own> }.
DocumentItemExtrasLast(extras, own) == Spread(own, extras)
DocumentItem(extras, own) == Spread(extras, own)

\* read() of the blob stores: `Body?.toString() || __default` (S3), the
\* downloaded text as it is (Azure).
S3Body(body, default) == Or(body, default)

\* S3StorageManager on a bucket: key -> NoFile / File(body).
S3Call(method, st, a, fault) ==
  CASE method = "write" ->
         IF fault THEN [ret |-> Thrown(RequestError), store |-> st]
         ELSE [ret |-> ReturnedValue(Void),
               store |-> [st EXCEPT ![a.path] = File(a.data)]]
    [] method = "read" ->
         IF fault THEN [ret |-> Thrown(RequestError), store |-> st]
         ELSE IF ~st[a.path].exists
           THEN [ret |-> ReturnedValue(Str(a.default)), store |-> st]
         ELSE [ret |-> ReturnedValue(Str(S3Body(st[a.path].data, a.default))),
               store |-> st]
    [] method = "delete" ->
         IF fault THEN [ret |-> Thrown(RequestError), store |-> st]
         ELSE [ret |-> ReturnedValue(Void), store |-> [st EXCEPT ![a.path] = NoFile]]
    [] method = "exists" ->
         IF fault THEN [ret |-> Thrown(RequestError), store |-> st]
         ELSE [ret |-> ReturnedValue(Bool(st[a.path].exists)), store |-> st]

\* AzureBlobStorageManager on a container: name -> NoFile / File(content).
AzureBlobCall(method, st, a, fault) ==
  CASE method = "write" ->
         IF fault THEN [ret |-> Thrown(RequestError), store |-> st]
         ELSE [ret |-> ReturnedValue(Void),
               store |-> [st EXCEPT ![a.path] = File(a.data)]]
    [] method = "read" ->
         IF fault THEN [ret |-> Thrown(RequestError), store |-> st]
         ELSE IF ~st[a.path].exists
           THEN [ret |-> ReturnedValue(Obj([data |-> a.default, path |-> a.path])),
                 store |-> st]
         ELSE [ret |-> ReturnedValue(Obj([data |-> st[a.path].data, path |-> a.path])),
               store |-> st]
    [] method = "delete" ->
         IF fault THEN [ret |-> Thrown(RequestError), store |-> st]
         ELSE [ret |-> ReturnedValue(Void), store |-> [st EXCEPT ![a.path] = NoFile]]
    [] method = "exists" ->
         IF fault THEN [ret |-> Thrown(RequestError), store |-> st]
         ELSE [ret |-> ReturnedValue(Bool(st[a.path].exists)), store |-> st]

\* DynamoStorageManager on a table keyed by path: path -> NoDocument / Item.
DynamoStorageCall(cfg, method, st, a, fault) ==
  CASE method = "write" ->
         LET Item == DocumentItem(AppendPreWrite(cfg, a.data, a.path),
                                  [path |-> a.path, data |-> a.data,
                                   updatedAt |-> getTimestamp])
         IN IF fault THEN [ret |-> Thrown(RequestError), store |-> st]
            ELSE [ret |-> ReturnedValue(Void), store |-> [st EXCEPT ![a.path] = Item]]
    [] method = "read" ->
         LET Item == st[a.path] IN
         IF fault THEN [ret |-> Thrown(RequestError), store |-> st]
         ELSE [ret |-> ReturnedValue(Obj(Spread(Item,
                         [path |-> Or(Attr(Item, "path"), a.path),
                          data |-> Or(Attr(Item, "data"), a.default)]))),
               store |-> st]
    [] method = "delete" ->
         IF fault THEN [ret |-> Thrown(RequestError), store |-> st]
         ELSE [ret |-> ReturnedValue(Void),
               store |-> [st EXCEPT ![a.path] = NoDocument]]
    [] method = "exists" ->
         IF fault THEN [ret |-> Thrown(RequestError), store |-> st]
         ELSE [ret |-> ReturnedValue(Bool(DOMAIN st[a.path] # {})), store |-> st]

\* CosmosStorageManager on a container: id -> NoDocument / resource.
\* item.delete() of an absent id rejects with "Entity with the specified id
\* does not exist in the system.", which delete() catches.
CosmosCall(cfg, method, st, a, fault) ==
  CASE method = "write" ->
         LET doc == DocumentItem(AppendPreWrite(cfg, a.data, a.path),
                                 [id |-> a.path, path |-> a.path, data |-> a.data,
                                  updatedAt |-> getTimestamp])
         IN IF fault THEN [ret |-> Thrown(RequestError), store |-> st]
            ELSE [ret |-> ReturnedValue(Void), store |-> [st EXCEPT ![a.path] = doc]]
    [] method = "read" ->
         LET resource == st[a.path] IN
         IF fault THEN [ret |-> Thrown(RequestError), store |-> st]
         ELSE [ret |-> ReturnedValue(Obj(Spread(resource,
                         [path |-> Or(Attr(resource, "id"), a.path),
                          data |-> Or(Attr(resource, "data"), a.default)]))),
               store |-> st]
    [] method = "delete" ->
         IF fault THEN [ret |-> Thrown(RequestError), store |-> st]
         ELSE [ret |-> ReturnedValue(Void),
               store |-> [st EXCEPT ![a.path] = NoDocument]]
    [] method = "exists" ->
         IF fault THEN [ret |-> Thrown(RequestError), store |-> st]
         ELSE [ret |-> ReturnedValue(Bool(DOMAIN st[a.path] # {})), store |-> st]

\* LocalFileStorageManager on a directory, as above.
LocalFileCall(method, st, a, fault) ==
  LET r == StorageCall(method, st, a, fault) IN [ret |-> r.ret, store |-> r.files]

\* One method of the IStorageManager implementation `kind`.
StorageManagerCall(kind, cfg, method, st, a, fault) ==
  CASE kind = "LocalFile" -> LocalFileCall(method, st, a, fault)
    [] kind = "S3" -> S3Call(method, st, a, fault)
    [] kind = "AzureBlob" -> AzureBlobCall(method, st, a, fault)
    [] kind = "Dynamo" -> DynamoStorageCall(cfg, method, st, a, fault)
    [] kind = "Cosmos" -> CosmosCall(cfg, method, st, a, fault)

\* The empty store of each implementation.
EmptyStore(kind) ==
  [p \in Paths |-> IF kind \in DocumentBackends THEN NoDocument ELSE NoFile]

\* read(path, __default = ''): the defaults passed; '' is also what an
\* omitted argument becomes.
ReadDefaults == {"", Fallback}

\* The data of what read() resolved with: the string itself (LocalFile, S3)
\* or the data attribute of the object.
DataOf(v) == IF v.t = "string" THEN v.s ELSE v.o["data"]

\* A completed storage call, with the store's entry for the path before and
\* after it.
NoStorageCall == [op |-> "none", args |-> Args("", "", ""), ret |-> None]
StorageCallRecord(op, a, r) == [op |-> op, args |-> a, ret |-> r]

\* Per path: the write or delete that completed last.
NeverWritten == [last |-> "never", data |-> "", at |-> 0]
Wrote(d, t) == [last |-> "write", data |-> d, at |-> t]
Deleted == [last |-> "delete", data |-> "", at |-> 0]

\* The storage side at rest, while another specification runs.
StorageQuiet ==
  /\ backend = "LocalFile"
  /\ appendPreWrite = "none"
  /\ store = EmptyStore("LocalFile")
  /\ lastStore = NoStorageCall
  /\ wrote = [p \in Paths |-> NeverWritten]

\* ------------------------------------------ lockable_storage_manager.ts
StorageOps == {"read", "write", "delete", "exists"}
LockingOps == {"lock", "unlock", "isLocked"}

\* LockableStorageMangerInput: both fields optional.
Inputs == [storageManager : BOOLEAN, lockingManager : BOOLEAN]

\* constructor(private params: LockableStorageMangerInput) {}
Constructor(input) == [outcome |-> Returned, params |-> input]

\* The field each method tests: `if (!this.params.<field>) throw ...`.
GuardLockTestsStorage(op) ==
  IF op \in StorageOps \/ op = "lock" THEN "storageManager" ELSE "lockingManager"
Guard(op) ==
  IF op \in StorageOps THEN "storageManager" ELSE "lockingManager"

\* The error each method throws when that field is missing.
ConfigError(op) ==
  [ name |-> "Error",
    message |-> << "[LockableStorageManager][", op, "] Trying to use ",
                   IF op \in StorageOps THEN "storage" ELSE "locking",
                   " manager which does not exist." >> ]

\* The backend method each method awaits: this.params.<field>.<method>(...).
TargetIsLockedCallsLock(op) ==
  [ field |-> IF op \in StorageOps THEN "storageManager" ELSE "lockingManager",
    method |-> IF op = "isLocked" THEN "lock" ELSE op ]
Target(op) ==
  [ field |-> IF op \in StorageOps THEN "storageManager" ELSE "lockingManager",
    method |-> op ]

\* Calling a method of an undefined field.
TypeError == [name |-> "TypeError", message |-> <<"Cannot read properties of undefined">>]

\* One backend invocation: which method of which field, with which arguments.
Invocation(t, a) == [field |-> t.field, method |-> t.method, args |-> a]

\* `return await this.params.<field>.<method>(...)`: one invocation of the
\* backend method with the arguments of the call; its result, or its error,
\* is the result of the facade method.
Delegate(prm, op, a, fs, tbl, fault) ==
  LET t == Target(op) IN
  IF ~prm[t.field]
    THEN [ret |-> Thrown(TypeError), files |-> fs, table |-> tbl, invoked |-> <<>>]
  ELSE IF t.field = "storageManager"
    THEN LET r == StorageCall(t.method, fs, a, fault) IN
         [ret |-> r.ret, files |-> r.files, table |-> tbl,
          invoked |-> <<Invocation(t, a)>>]
    ELSE LET r == LockingCall(t.method, tbl, a, fault) IN
         [ret |-> r.ret, files |-> fs, table |-> r.table,
          invoked |-> <<Invocation(t, a)>>]

\* The result every method gives when its guard fails.
Unconfigured(op, fs, tbl) ==
  [ret |-> Thrown(ConfigError(op)), files |-> fs, table |-> tbl, invoked |-> <<>>]

\* Variants of a facade method: one that calls lock() again when it returned
\* false, one that refuses write/delete on a locked path, one that catches
\* what the backend throws.
FacadeCallRetriesLock(prm, op, a, fs, tbl, fault) ==
  IF ~prm[Guard(op)] THEN Unconfigured(op, fs, tbl)
  ELSE LET r == Delegate(prm, op, a, fs, tbl, fault) IN
    IF op = "lock" /\ r.ret = ReturnedValue(Bool(FALSE))
      THEN LET r2 == Delegate(prm, op, a, r.files, r.table, fault) IN
           [r2 EXCEPT !.invoked = r.invoked \o r2.invoked]
      ELSE r
FacadeCallChecksLock(prm, op, a, fs, tbl, fault) ==
  IF ~prm[Guard(op)] THEN Unconfigured(op, fs, tbl)
  ELSE IF op \in {"write", "delete"} /\ prm.lockingManager /\ tbl[a.path] # NoItem
    THEN [ret |-> Thrown(TypeError), files |-> fs, table |-> tbl,
          invoked |-> <<Invocation(Target("isLocked"), a)>>]
  ELSE Delegate(prm, op, a, fs, tbl, fault)
FacadeCallCatches(prm, op, a, fs, tbl, fault) ==
  IF ~prm[Guard(op)] THEN Unconfigured(op, fs, tbl)
  ELSE LET r == Delegate(prm, op, a, fs, tbl, fault) IN
    IF r.ret.kind = "thrown" THEN [r EXCEPT !.ret = ReturnedValue(Void)] ELSE r

\* One method of LockableStorageManager: the guard, then the delegation.
FacadeCall(prm, op, a, fs, tbl, fault) ==
  IF ~prm[Guard(op)] THEN Unconfigured(op, fs, tbl)
  ELSE Delegate(prm, op, a, fs, tbl, fault)

\* The same call made on the bare backend, where there is one.
DirectCall(prm, op, a, fs, tbl, fault) ==
  IF op \in StorageOps
    THEN IF prm.storageManager
           THEN LET r == StorageCall(op, fs, a, fault) IN
                [ret |-> r.ret, files |-> r.files, table |-> tbl]
           ELSE [ret |-> None, files |-> fs, table |-> tbl]
    ELSE IF prm.lockingManager
           THEN LET r == LockingCall(op, tbl, a, fault) IN
                [ret |-> r.ret, files |-> fs, table |-> r.table]
           ELSE [ret |-> None, files |-> fs, table |-> tbl]

NoOp == [op |-> "none", args |-> Args("", "", "")]

\* The facade side at rest, while another specification runs.
FacadeQuiet ==
  /\ params = [storageManager |-> FALSE, lockingManager |-> FALSE]
  /\ ctorOutcome = None
  /\ files = [p \in Paths |-> NoFile]
  /\ twinFiles = [p \in Paths |-> NoFile]
  /\ twinTable = [p \in Paths |-> NoItem]
  /\ lastOp = NoOp
  /\ facadeRet = None
  /\ directRet = None
  /\ invoked = <<>>
  /\ changed = FALSE

\* The call acquireLock(pathToLock, lockingManager, maxRetry?, retryWait?).
AcquireInit ==
  /\ pathToLock \in Paths
  /\ acquireArgs \in
       [ maxRetry : {Given(v) : v \in 0..MaxRetryBound} \cup {Omitted},
         retryWait : {Given(v) : v \in RetryWaits} \cup {Omitted} ]
  /\ maxRetry = DefaultedMaxRetry(acquireArgs.maxRetry)
  /\ retryWait = DefaultedRetryWait(acquireArgs.retryWait)
  /\ i = 0
  /\ pc = "for"
  /\ events = <<>>
  /\ outcome = None
  /\ LockQuiet
  /\ FacadeQuiet
  /\ StorageQuiet
  /\ ContendQuiet

\* Loop test; on exit the throw of line 48.
AcqLoopTest ==
  /\ pc = "for"
  /\ IF LoopCond(i, maxRetry)
       THEN /\ pc' = "call"
            /\ outcome' = outcome
       ELSE /\ pc' = "done"
            /\ outcome' = Thrown(AcquireLockError(AcquireLockMessage(pathToLock)))
  /\ UNCHANGED <<pathToLock, maxRetry, retryWait, acquireArgs, i, events>>
  /\ UNCHANGED lockVars
  /\ UNCHANGED facadeVars
  /\ UNCHANGED storageVars
  /\ UNCHANGED contendVars

\* const lockAcquired = await lockingManager.lock(pathToLock);
\* if (lockAcquired) return;  if (i < maxRetry) ... else i++
AcquireStep(o) ==
  LET step == OnLockOutcome(o) IN
  /\ events' = Append(events, LockEvent(pathToLock, o))
  /\ CASE step.do = "propagate" ->
            /\ pc' = "done"
            /\ outcome' = Thrown(step.error)
            /\ i' = i
       [] step.do = "return" ->
            /\ pc' = "done"
            /\ outcome' = Returned
            /\ i' = i
       [] step.do = "retry" ->
            /\ outcome' = outcome
            /\ IF WaitCond(i, maxRetry)
                 THEN pc' = "wait" /\ i' = i
                 ELSE pc' = "for" /\ i' = i + 1
  /\ UNCHANGED <<pathToLock, maxRetry, retryWait, acquireArgs>>

\* The loop body against an arbitrary ILockingManager: lock() settles in any
\* of the ways the interface allows.
AcqLock ==
  /\ pc = "call"
  /\ \E o \in LockOutcomes : AcquireStep(o)
  /\ UNCHANGED lockVars
  /\ UNCHANGED facadeVars
  /\ UNCHANGED storageVars
  /\ UNCHANGED contendVars

\* A variant whose wait grows with the attempt index.
AcqWaitGrowing ==
  /\ pc = "wait"
  /\ events' = Append(events, WaitEvent(retryWait * (i + 1)))
  /\ i' = i + 1
  /\ pc' = "for"
  /\ UNCHANGED <<pathToLock, maxRetry, retryWait, acquireArgs, outcome>>
  /\ UNCHANGED lockVars
  /\ UNCHANGED facadeVars
  /\ UNCHANGED storageVars
  /\ UNCHANGED contendVars

\* await waitForTime(retryWait); then the loop's i++
AcqWait ==
  /\ pc = "wait"
  /\ events' = Append(events, WaitEvent(retryWait))
  /\ i' = i + 1
  /\ pc' = "for"
  /\ UNCHANGED <<pathToLock, maxRetry, retryWait, acquireArgs, outcome>>
  /\ UNCHANGED lockVars
  /\ UNCHANGED facadeVars
  /\ UNCHANGED storageVars
  /\ UNCHANGED contendVars

AcquireNext == AcqLoopTest \/ AcqLock \/ AcqWait

SpecAcquire == AcquireInit /\ [][AcquireNext]_vars

\* ------------------------------------- callers of DynamoLockingManager
AcquireQuiet ==
  /\ pathToLock = "" /\ maxRetry = 0 /\ retryWait = 0 /\ i = 0
  /\ acquireArgs = [maxRetry |-> Given(0), retryWait |-> Given(0)]
  /\ pc = "done" /\ events = <<>> /\ outcome = None

\* new DynamoLockingManager(tableName, ..., timeToLiveDurationInSeconds?)
\* over an empty table.
LockInit ==
  /\ table = [p \in Paths |-> NoItem]
  /\ now = 0
  /\ timeToLiveArg \in {Given(0), Omitted}
  /\ timeToLiveDurationInSeconds = DefaultedTimeToLive(timeToLiveArg)
  /\ lastCall = NoCall
  /\ granted = {}
  /\ holders = {}
  /\ AcquireQuiet
  /\ FacadeQuiet
  /\ StorageQuiet
  /\ ContendQuiet

\* lockingManager.lock(p) by caller c: createdAt = getTimestamp(), the
\* conditional put, and the Boolean it returns.
CallLock(c, p) ==
  /\ \E fault \in BOOLEAN :
       LET r == DynamoPut(table, LockParams(p, getTimestamp), fault)
           lockAcquired == LockReturn(r)
       IN
       /\ table' = r.table
       /\ lastCall' = Call(c, "lock", p, lockAcquired, table, r.table)
       /\ granted' = IF lockAcquired THEN granted \cup {<<c, p>>} ELSE granted
       /\ holders' = IF lockAcquired THEN holders \cup {<<c, p>>} ELSE holders
  /\ UNCHANGED <<now, timeToLiveDurationInSeconds, timeToLiveArg>>
  /\ UNCHANGED acquireVars
  /\ UNCHANGED facadeVars
  /\ UNCHANGED storageVars
  /\ UNCHANGED contendVars

\* lockingManager.unlock(p) by caller c: one conditional delete.
CallUnlock(c, p) ==
  /\ \E fault \in BOOLEAN :
       LET r == DynamoDelete(table, UnlockParams(p), fault) IN
       /\ table' = r.table
       /\ lastCall' = Call(c, "unlock", p, UnlockReturn(r), table, r.table)
       /\ granted' = IF r.table[p] = NoItem
                       THEN {g \in granted : g[2] # p} ELSE granted
       /\ holders' = holders \ {<<c, p>>}
  /\ UNCHANGED <<now, timeToLiveDurationInSeconds, timeToLiveArg>>
  /\ UNCHANGED acquireVars
  /\ UNCHANGED facadeVars
  /\ UNCHANGED storageVars
  /\ freedAt' = FreedAt(p, table')
  /\ UNCHANGED heldAtStart

\* lockingManager.isLocked(p) by caller c: one get.
CallIsLocked(c, p) ==
  /\ \E fault \in BOOLEAN :
       lastCall' = Call(c, "isLocked", p, IsLockedReturn(DynamoGet(table, p, fault)),
                        table, table)
  /\ UNCHANGED <<table, now, timeToLiveDurationInSeconds, timeToLiveArg, granted, holders>>
  /\ UNCHANGED acquireVars
  /\ UNCHANGED facadeVars
  /\ UNCHANGED storageVars
  /\ UNCHANGED contendVars

\* A second passes.
Tick ==
  /\ now < MaxTime
  /\ now' = now + 1
  /\ UNCHANGED <<table, timeToLiveDurationInSeconds, timeToLiveArg, lastCall, granted, holders>>
  /\ UNCHANGED acquireVars
  /\ UNCHANGED facadeVars
  /\ UNCHANGED storageVars
  /\ UNCHANGED contendVars

\* DynamoDB TTL on expireAt: the table removes an item on its own at some
\* moment after its expireAt has passed (never, if TTL is not configured).
Expire(p) ==
  /\ table[p] # NoItem
  /\ now > table[p].expireAt
  /\ table' = [table EXCEPT ![p] = NoItem]
  /\ granted' = {g \in granted : g[2] # p}
  /\ UNCHANGED <<now, timeToLiveDurationInSeconds, timeToLiveArg, lastCall, holders>>
  /\ UNCHANGED acquireVars
  /\ UNCHANGED facadeVars
  /\ UNCHANGED storageVars
  /\ freedAt' = FreedAt(p, table')
  /\ UNCHANGED heldAtStart

LockNext ==
  \/ \E c \in Callers, p \in Paths : CallLock(c, p)
  \/ \E c \in Callers, p \in Paths : CallUnlock(c, p)
  \/ \E c \in Callers, p \in Paths : CallIsLocked(c, p)
  \/ Tick
  \/ \E p \in Paths : Expire(p)

SpecLock == LockInit /\ [][LockNext]_vars

\* ------------- acquireLock on a DynamoLockingManager, among other callers
\* The caller of acquireLock; the other callers call lock and unlock.
Acquirer == 1

\* acquireLock(pathToLock, lockingManager, maxRetry) is called, retryWait
\* omitted, on a table where pathToLock is free or already held by the caller
\* itself (its earlier lock(pathToLock) returned true at time 0).
ContendInit ==
  /\ pathToLock \in Paths
  /\ acquireArgs \in [ maxRetry : {Given(v) : v \in 0..MaxRetryBound},
                       retryWait : {Omitted} ]
  /\ maxRetry = DefaultedMaxRetry(acquireArgs.maxRetry)
  /\ retryWait = DefaultedRetryWait(acquireArgs.retryWait)
  /\ i = 0
  /\ pc = "for"
  /\ events = <<>>
  /\ outcome = None
  /\ now = 0
  /\ timeToLiveArg \in {Given(0), Omitted}
  /\ timeToLiveDurationInSeconds = DefaultedTimeToLive(timeToLiveArg)
  /\ heldAtStart \in BOOLEAN
  /\ table = [p \in Paths |->
                IF heldAtStart /\ p = pathToLock
                  THEN LockParams(p, getTimestamp).Item ELSE NoItem]
  /\ lastCall = NoCall /\ granted = {} /\ holders = {}
  /\ freedAt = -1
  /\ FacadeQuiet
  /\ StorageQuiet

\* The loop body against the DynamoLockingManager: lock(pathToLock) is one
\* conditional put, which resolves true or false and never rejects.
AcqLockDynamo ==
  /\ pc = "call"
  /\ \E fault \in BOOLEAN :
       LET r == DynamoPut(table, LockParams(pathToLock, getTimestamp), fault) IN
       /\ AcquireStep(Resolve(LockReturn(r)))
       /\ table' = r.table
  /\ UNCHANGED <<now, timeToLiveDurationInSeconds, timeToLiveArg, lastCall, granted, holders>>
  /\ UNCHANGED facadeVars
  /\ UNCHANGED storageVars
  /\ UNCHANGED contendVars

\* What the other callers do meanwhile: lock(p) and unlock(p) by caller c.
\* The table keeps no trace of who called.
OtherLock(c, p) ==
  /\ c # Acquirer
  /\ \E fault \in BOOLEAN :
       table' = DynamoPut(table, LockParams(p, getTimestamp), fault).table
  /\ UNCHANGED <<now, timeToLiveDurationInSeconds, timeToLiveArg, lastCall, granted, holders>>
  /\ UNCHANGED acquireVars
  /\ UNCHANGED facadeVars
  /\ UNCHANGED storageVars
  /\ UNCHANGED contendVars
OtherUnlock(c, p) ==
  /\ c # Acquirer
  /\ \E fault \in BOOLEAN :
       table' = DynamoDelete(table, UnlockParams(p), fault).table
  /\ freedAt' = FreedAt(p, table')
  /\ UNCHANGED <<now, timeToLiveDurationInSeconds, timeToLiveArg, lastCall, granted, holders>>
  /\ UNCHANGED acquireVars
  /\ UNCHANGED facadeVars
  /\ UNCHANGED storageVars
  /\ UNCHANGED heldAtStart

ContendNext ==
  \/ AcqLoopTest
  \/ AcqLockDynamo
  \/ AcqWait
  \/ \E c \in Callers, p \in Paths : OtherLock(c, p)
  \/ \E c \in Callers, p \in Paths : OtherUnlock(c, p)
  \/ Tick
  \/ \E p \in Paths : Expire(p)

SpecContend == ContendInit /\ [][ContendNext]_vars

\* The activation is scheduled: each await of acquireLock resumes.
SpecContendFair ==
  /\ SpecContend
  /\ WF_vars(AcqLoopTest) /\ WF_vars(AcqLockDynamo) /\ WF_vars(AcqWait)

\* ------------------------------------------ users of LockableStorageManager
\* new LockableStorageManager({storageManager?, lockingManager?}) over empty
\* backends; the bare twins start in the same state.
FacadeInit ==
  /\ \E input \in Inputs :
       /\ ctorOutcome = Constructor(input).outcome
       /\ params = Constructor(input).params
  /\ files = [p \in Paths |-> NoFile]
  /\ twinFiles = [p \in Paths |-> NoFile]
  /\ table = [p \in Paths |-> NoItem]
  /\ twinTable = [p \in Paths |-> NoItem]
  /\ now = 0
  /\ timeToLiveArg = Omitted
  /\ timeToLiveDurationInSeconds = DefaultedTimeToLive(timeToLiveArg)
  /\ lastOp = NoOp
  /\ facadeRet = None
  /\ directRet = None
  /\ invoked = <<>>
  /\ changed = FALSE
  /\ lastCall = NoCall /\ granted = {} /\ holders = {}
  /\ AcquireQuiet
  /\ StorageQuiet
  /\ ContendQuiet

\* A variant that drops its backends once a call has thrown.
FacadeOpForgetsBackend(op, a) ==
  /\ \E fault \in BOOLEAN :
       LET f == FacadeCall(params, op, a, files, table, fault)
           d == DirectCall(params, op, a, twinFiles, twinTable, fault)
       IN
       /\ lastOp' = [op |-> op, args |-> a]
       /\ facadeRet' = f.ret
       /\ files' = f.files
       /\ table' = f.table
       /\ invoked' = f.invoked
       /\ changed' = (f.files # files \/ f.table # table)
       /\ directRet' = d.ret
       /\ twinFiles' = d.files
       /\ twinTable' = d.table
  /\ params' = IF facadeRet'.kind = "thrown"
                 THEN [storageManager |-> FALSE, lockingManager |-> FALSE]
                 ELSE params
  /\ UNCHANGED <<ctorOutcome, now, timeToLiveDurationInSeconds, timeToLiveArg,
                 lastCall, granted, holders>>
  /\ UNCHANGED acquireVars
  /\ UNCHANGED storageVars
  /\ UNCHANGED contendVars

\* The facade method op is called with arguments a, and the same method with
\* the same arguments on the bare backend, under the same fault.
FacadeOp(op, a) ==
  /\ \E fault \in BOOLEAN :
       LET f == FacadeCall(params, op, a, files, table, fault)
           d == DirectCall(params, op, a, twinFiles, twinTable, fault)
       IN
       /\ lastOp' = [op |-> op, args |-> a]
       /\ facadeRet' = f.ret
       /\ files' = f.files
       /\ table' = f.table
       /\ invoked' = f.invoked
       /\ changed' = (f.files # files \/ f.table # table)
       /\ directRet' = d.ret
       /\ twinFiles' = d.files
       /\ twinTable' = d.table
  /\ UNCHANGED <<params, ctorOutcome, now, timeToLiveDurationInSeconds, timeToLiveArg,
                 lastCall, granted, holders>>
  /\ UNCHANGED acquireVars
  /\ UNCHANGED storageVars
  /\ UNCHANGED contendVars

\* The seven methods, callable once the constructor has returned.
FacadeRead(p) ==
  /\ ctorOutcome = Returned
  /\ FacadeOp("read", Args(p, "", Fallback))
FacadeWrite(d, p) ==
  /\ ctorOutcome = Returned
  /\ FacadeOp("write", Args(p, d, ""))
FacadeDelete(p) ==
  /\ ctorOutcome = Returned
  /\ FacadeOp("delete", Args(p, "", ""))
FacadeExists(p) ==
  /\ ctorOutcome = Returned
  /\ FacadeOp("exists", Args(p, "", ""))
FacadeLock(p) ==
  /\ ctorOutcome = Returned
  /\ FacadeOp("lock", Args(p, "", ""))
FacadeUnlock(p) ==
  /\ ctorOutcome = Returned
  /\ FacadeOp("unlock", Args(p, "", ""))
FacadeIsLocked(p) ==
  /\ ctorOutcome = Returned
  /\ FacadeOp("isLocked", Args(p, "", ""))

FacadeNext ==
  \/ \E p \in Paths : FacadeRead(p)
  \/ \E d \in Data, p \in Paths : FacadeWrite(d, p)
  \/ \E p \in Paths : FacadeDelete(p)
  \/ \E p \in Paths : FacadeExists(p)
  \/ \E p \in Paths : FacadeLock(p)
  \/ \E p \in Paths : FacadeUnlock(p)
  \/ \E p \in Paths : FacadeIsLocked(p)
  \/ Tick

SpecFacade == FacadeInit /\ [][FacadeNext]_vars

\* ----------------------------------------------- users of one IStorageManager
\* A freshly constructed storage manager of some implementation over an
\* empty store; appendPreWrite exists for Dynamo and Cosmos only.
StorageInit ==
  /\ backend \in Backends
  /\ appendPreWrite \in IF backend \in DocumentBackends
                          THEN AppendPreWrites ELSE {"none"}
  /\ store = EmptyStore(backend)
  /\ lastStore = NoStorageCall
  /\ wrote = [p \in Paths |-> NeverWritten]
  /\ AcquireQuiet
  /\ LockQuiet
  /\ FacadeQuiet
  /\ ContendQuiet

\* One call of method op with arguments a; the request to the backing store
\* may fail.
StorageOp(op, a) ==
  /\ \E fault \in BOOLEAN :
       LET r == StorageManagerCall(backend, appendPreWrite, op, store, a, fault) IN
       /\ store' = r.store
       /\ lastStore' = StorageCallRecord(op, a, r.ret)
       /\ wrote' = IF r.ret.kind = "returned" /\ op = "write"
                     THEN [wrote EXCEPT ![a.path] = Wrote(a.data, getTimestamp)]
                   ELSE IF r.ret.kind = "returned" /\ op = "delete"
                     THEN [wrote EXCEPT ![a.path] = Deleted]
                   ELSE wrote
  /\ UNCHANGED <<backend, appendPreWrite>>
  /\ UNCHANGED acquireVars
  /\ UNCHANGED lockVars
  /\ UNCHANGED facadeVars
  /\ UNCHANGED contendVars

Write(d, p) ==
  /\ backend \in Backends
  /\ StorageOp("write", Args(p, d, ""))
Read(p, dflt) ==
  /\ backend \in Backends
  /\ StorageOp("read", Args(p, "", dflt))
Delete(p) ==
  /\ backend \in Backends
  /\ StorageOp("delete", Args(p, "", ""))
Exists(p) ==
  /\ backend \in Backends
  /\ StorageOp("exists", Args(p, "", ""))

StorageNext ==
  \/ \E d \in Data, p \in Paths : Write(d, p)
  \/ \E p \in Paths, dflt \in ReadDefaults : Read(p, dflt)
  \/ \E p \in Paths : Delete(p)
  \/ \E p \in Paths : Exists(p)

SpecStorage == StorageInit /\ [][StorageNext]_vars

\* ------------------------------------------------- observations on a run
IsLock(e) == e.ev = "lock"
IsWait(e) == e.ev = "wait"
ReturnedFalse(e) == IsLock(e) /\ e.out = Resolve(FALSE)
ReturnedTrue(e) == IsLock(e) /\ e.out = Resolve(TRUE)
Rejected(e) == IsLock(e) /\ e.out.kind = "reject"
LockCalls == Len(SelectSeq(events, IsLock))
Waits == Len(SelectSeq(events, IsWait))
AllAttemptsFalse ==
  \A k \in 1..Len(events) : IsLock(events[k]) => ReturnedFalse(events[k])
Failed ==
  outcome = Thrown(AcquireLockError(AcquireLockMessage(pathToLock)))

\* ------------------------------------------------------------- claims
\* C1 (as claimed): against a backend whose lock() always returns false,
\* acquireLock with maxRetry >= 1 ends with LockAcquisitionFailed after
\* exactly maxRetry attempts and exactly maxRetry - 1 waits, the last thing
\* it did being a lock() attempt (no wait after the final attempt).
C1_NoTrailingWait ==
  (pc = "done" /\ maxRetry >= 1 /\ AllAttemptsFalse /\ Failed) =>
    /\ LockCalls = maxRetry
    /\ Waits = maxRetry - 1
    /\ IsLock(events[Len(events)])

\* C2: whenever an attempt returned true, it is the last thing acquireLock
\* did and acquireLock returned; on return after k attempts the run is
\* exactly false, wait, false, wait, ..., true: k lock() calls (k <= maxRetry),
\* k - 1 waits, each wait between two consecutive attempts.
C2_SuccessAtKth ==
  /\ \A j \in 1..Len(events) :
       ReturnedTrue(events[j]) => (j = Len(events) /\ outcome = Returned /\ pc = "done")
  /\ outcome = Returned =>
       LET k == LockCalls IN
       /\ 1 <= k /\ k <= maxRetry
       /\ Waits = k - 1
       /\ Len(events) = 2 * k - 1
       /\ \A j \in 1..Len(events) :
            IF j % 2 = 1
              THEN IF j = 2 * k - 1 THEN ReturnedTrue(events[j])
                                    ELSE ReturnedFalse(events[j])
              ELSE IsWait(events[j])

\* false, false, true with maxRetry = 3: three attempts and two waits.
C2_Witness ==
  /\ outcome = Returned /\ maxRetry = 3
  /\ LockCalls = 3 /\ Waits = 2

\* C3: acquireLock ends with AcquireLockError exactly when it made maxRetry
\* attempts and every one returned false; the error's message carries the
\* requested path; it is never raised after a true and the call never
\* returns when every attempt returned false.
C3_FailIffExhausted ==
  /\ Failed => pc = "done"
  /\ pc = "done" => (Failed <=> (LockCalls = maxRetry /\ AllAttemptsFalse))
  /\ (outcome.kind = "thrown" /\ outcome.error.name = "AcquireLockError") =>
       /\ outcome.error.message[2] = pathToLock
       /\ \A j \in 1..Len(events) : ~ReturnedTrue(events[j])
  /\ outcome = Returned => ~AllAttemptsFalse

C3_Witness ==
  /\ Failed /\ maxRetry = 2 /\ LockCalls = 2 /\ AllAttemptsFalse
  /\ outcome.error.message = <<"Could not acquire lock on path ", "b.json", ".">>

\* C4: with maxRetry = 0 acquireLock makes no lock() call and no wait and
\* ends with AcquireLockError.
C4_ZeroRetries ==
  maxRetry = 0 =>
    /\ events = <<>>
    /\ pc \in {"for", "done"}
    /\ pc = "done" => Failed

C4_Witness == maxRetry = 0 /\ pc = "done" /\ Failed /\ LockCalls = 0 /\ Waits = 0

\* C5: a lock() that rejects is the last thing acquireLock does: the call
\* ends at once with that very error (not AcquireLockError), with no
\* further lock() call and no wait.
C5_ErrorPropagates ==
  \A j \in 1..Len(events) :
    Rejected(events[j]) =>
      /\ j = Len(events)
      /\ pc = "done"
      /\ outcome = Thrown(events[j].out.error)
      /\ outcome.error.name # "AcquireLockError"

\* lock() rejects on the second attempt, after one false and one wait.
C5_Witness ==
  /\ Len(events) = 3 /\ ReturnedFalse(events[1]) /\ IsWait(events[2])
  /\ Rejected(events[3]) /\ events[3].out.error.name = "ThrottlingException"
  /\ outcome.kind = "thrown" /\ outcome.error.name = "ThrottlingException"

\* Callers with a standing grant on p / callers that locked p and have not
\* themselves called unlock(p) since.
GrantsOn(p) == {c \in Callers : <<c, p>> \in granted}
HoldersOf(p) == {c \in Callers : <<c, p>> \in holders}
OtherCallers(c) == Callers \ {c}

\* C6: while the record that some caller's successful lock(p) created stands
\* (no unlock(p) removed it, the lease did not expire), a lock(p) by any
\* other caller returns false and leaves that record as it was.
C6_OthersRefused ==
  \A c \in Callers, p \in Paths :
    ( /\ lastCall.op = "lock" /\ lastCall.caller = c /\ lastCall.path = p
      /\ \E d \in OtherCallers(c) : <<d, p>> \in granted )
    => /\ lastCall.ret = FALSE
       /\ lastCall.before # NoItem
       /\ lastCall.after = lastCall.before

\* Caller 1 holds a.json; caller 2's lock("a.json") came back false.
C6_Witness ==
  /\ <<1, "a.json">> \in granted
  /\ lastCall.op = "lock" /\ lastCall.caller = 2 /\ lastCall.path = "a.json"
  /\ lastCall.ret = FALSE /\ table["a.json"] # NoItem

\* C7 (as claimed): for every path at most one caller is a holder, a holder
\* being a caller whose lock(p) succeeded and who has not called unlock(p).
C7_OneHolder ==
  \A p \in Paths : Cardinality(HoldersOf(p)) <= 1

\* C7 (amended): for every path at most one caller has a standing grant, a
\* grant lasting from a successful lock(p) until the record of p is removed
\* by anyone's unlock(p) or by lease expiry; and a grant stands exactly
\* while the record exists.
C7_OneGrant ==
  \A p \in Paths :
    /\ Cardinality(GrantsOn(p)) <= 1
    /\ (GrantsOn(p) # {}) <=> (table[p] # NoItem)

\* Two callers locked a.json and neither called unlock since, yet only one
\* grant stands: the first lost the lock to a foreign unlock or to expiry.
C7_Witness ==
  /\ Cardinality(HoldersOf("a.json")) = 2
  /\ Cardinality(GrantsOn("a.json")) = 1
  /\ table["a.json"] # NoItem

\* C8 (as claimed): lock(p) returns true, creating the record, iff no record
\* of p existed at the call; it returns false only when a record exists, and
\* then leaves it unchanged.
C8_AtomicTestAndSet ==
  lastCall.op = "lock" =>
    /\ lastCall.ret <=> (lastCall.before = NoItem)
    /\ lastCall.ret => (lastCall.after # NoItem /\ lastCall.after.id = lastCall.path)
    /\ ~lastCall.ret => (lastCall.before # NoItem /\ lastCall.after = lastCall.before)

\* Whether the capability a facade method belongs to was supplied.
Supplied(op) ==
  IF op \in StorageOps THEN params.storageManager ELSE params.lockingManager
OnlyLocking == params.lockingManager /\ ~params.storageManager
OnlyStorage == params.storageManager /\ ~params.lockingManager

\* C9: a facade method whose capability was not supplied throws the
\* configuration error of that method: it returns nothing, invokes no
\* backend method and changes no backend state.
C9_UnconfiguredFails ==
  (lastOp.op # "none" /\ ~Supplied(lastOp.op)) =>
    /\ facadeRet = Thrown(ConfigError(lastOp.op))
    /\ facadeRet.error.message[2] = lastOp.op
    /\ invoked = <<>>
    /\ ~changed

\* lock() on a facade that has a storage backend but no locking backend.
C9_Witness ==
  /\ OnlyStorage /\ lastOp.op = "lock"
  /\ facadeRet.kind = "thrown" /\ invoked = <<>>
  /\ \E p \in Paths : files[p].exists

\* C10: the constructor returns for every input; with only a locking
\* backend the three locking methods return what the bare backend returns and
\* leave it in the same state, while the four storage methods throw the
\* configuration error; with only a storage backend, the other way round.
C10_IndependentHalves ==
  /\ ctorOutcome = Returned
  /\ (OnlyLocking \/ OnlyStorage) /\ lastOp.op # "none" =>
       IF Supplied(lastOp.op)
         THEN /\ facadeRet = directRet
              /\ files = twinFiles
              /\ table = twinTable
         ELSE /\ facadeRet = Thrown(ConfigError(lastOp.op))
              /\ files = twinFiles
              /\ table = twinTable

\* Only a locking backend: unlock through the facade released a held lock.
C10_Witness ==
  /\ OnlyLocking /\ lastOp.op = "unlock"
  /\ facadeRet = ReturnedValue(Bool(TRUE)) /\ directRet = facadeRet
  /\ table[lastOp.args.path] = NoItem /\ changed

BothSupplied == params.storageManager /\ params.lockingManager

\* C11: a facade call whose capability was supplied makes exactly one
\* backend invocation, of the method of the same name with the arguments of
\* the call, and its result is that of the same call on the bare backend; after
\* every sequence of calls the backends behind the facade are in the state of
\* the bare backends that received the same calls (no retry of lock() on
\* false, nothing cached).
C11_PureRouter ==
  /\ files = twinFiles
  /\ table = twinTable
  /\ (lastOp.op # "none" /\ Supplied(lastOp.op)) =>
       /\ invoked = << [ field |-> IF lastOp.op \in StorageOps
                                    THEN "storageManager" ELSE "lockingManager",
                         method |-> lastOp.op,
                         args |-> lastOp.args] >>
       /\ facadeRet = directRet

\* lock() through the facade on a path already locked: one attempt, false.
C11_Witness ==
  /\ BothSupplied /\ lastOp.op = "lock"
  /\ facadeRet = ReturnedValue(Bool(FALSE)) /\ Len(invoked) = 1
  /\ table[lastOp.args.path] # NoItem
  /\ \E p \in Paths : files[p].exists

\* A step that is a call of a facade method (the clock stands still).
IsFacadeStep == now' = now

\* C12: a storage method of the facade invokes no locking method, leaves the
\* lock table as it was and has the outcome the storage backend alone gives
\* on the stored data, whatever the lock state of the path; a locking method
\* invokes no storage method and leaves all stored data as it was.
C12_AdvisoryFrame ==
  /\ [](\A k \in 1..Len(invoked) :
          invoked[k].field = (IF lastOp.op \in StorageOps
                                THEN "storageManager" ELSE "lockingManager"))
  /\ []((lastOp.op \in StorageOps /\ Supplied(lastOp.op)) => facadeRet = directRet)
  /\ [][ IsFacadeStep =>
           /\ (lastOp'.op \in StorageOps /\ Supplied(lastOp'.op)) =>
                /\ table' = table
                /\ \E fault \in BOOLEAN :
                     LET r == StorageCall(lastOp'.op, files, lastOp'.args, fault) IN
                     facadeRet' = r.ret /\ files' = r.files
           /\ lastOp'.op \in LockingOps => files' = files ]_vars

\* write() through the facade on a locked path went through, and the lock
\* stands.
C12_Witness ==
  /\ BothSupplied /\ lastOp.op = "write" /\ lastOp.args.data = "saad-ahmad"
  /\ table[lastOp.args.path] # NoItem
  /\ facadeRet = ReturnedValue(Void)
  /\ files[lastOp.args.path] = File("saad-ahmad")

C14_UnlockLeavesNoRecord ==
  lastCall.op = "unlock" => lastCall.after = NoItem

\* C15 (as claimed): an isLocked(p) that returns true found a record of p
\* whose expireAt has not passed: once expireAt has passed, isLocked(p)
\* returns false.
C15_ReflectsExpiry ==
  [][ \A c \in Callers, p \in Paths :
        (CallIsLocked(c, p) /\ lastCall'.ret) =>
          (table[p] # NoItem /\ now <= table[p].expireAt) ]_vars

\* C16 (as claimed): isLocked(p) returns false when no record of p exists
\* (so for every path never locked), and true when the record of a successful
\* lock(p) exists, neither removed by an unlock(p) nor expired.
C16_IsLockedTracksRecord ==
  lastCall.op = "isLocked" =>
    /\ lastCall.before = NoItem => ~lastCall.ret
    /\ (lastCall.before # NoItem /\ now <= lastCall.before.expireAt) => lastCall.ret

\* The storage call that completed last returned (did not throw).
Completed == lastStore.ret.kind = "returned"
LastPath == lastStore.args.path

\* An error thrown by a storage method is the failure of the request, never
\* the report that the path is absent.
OnlyRequestErrors ==
  lastStore.ret.kind = "thrown" => lastStore.ret.error \in {RequestError, FsError}

\* C17 (as claimed): on every backend, a read(p, "fallback") that follows a
\* completed write(d, p), with no write or delete on p in between, returns d as
\* the data, for every d, the empty string included.
C17_RoundTrip ==
  ( /\ lastStore.op = "read" /\ Completed
    /\ lastStore.args.default = Fallback
    /\ wrote[LastPath].last = "write" )
  => DataOf(lastStore.ret.value) = wrote[LastPath].data

\* C18 (as claimed): delete(p) on a path without stored data completes
\* without error and changes nothing; after a completed delete(p) nothing is
\* stored under p, so that a second delete(p) changes nothing; and
\* read(p, "fallback") returns "fallback" from a completed delete(p) until
\* the next write to p.
C18_DeleteIdempotent ==
  /\ lastStore.op = "delete" => OnlyRequestErrors
  /\ (lastStore.op = "delete" /\ Completed) =>
       store[LastPath] = EmptyStore(backend)[LastPath]
  /\ \A p \in Paths :
       wrote[p].last \in {"never", "delete"} =>
         store[p] = EmptyStore(backend)[p]
  /\ ( /\ lastStore.op = "read" /\ Completed
       /\ lastStore.args.default = Fallback
       /\ wrote[LastPath].last = "delete" )
     => DataOf(lastStore.ret.value) = Fallback

\* C19 (as claimed): exists(p) returns true exactly when the write or delete
\* on p that completed last is a write: false before any write, true after a
\* completed write, false after a completed delete; and it does not fail
\* because the path is absent.
C19_ExistsTracksHistory ==
  /\ lastStore.op = "exists" => OnlyRequestErrors
  /\ (lastStore.op = "exists" /\ Completed) =>
       (lastStore.ret.value.b <=> wrote[LastPath].last = "write")

\* What read() returned, and what appendPreWrite returned to the write that
\* completed last on that path.
ReadObject == lastStore.ret.value.o
Extras == AppendPreWrite(appendPreWrite, wrote[LastPath].data, LastPath)

\* A read() on a Dynamo or Cosmos manager that follows a completed write to
\* the path; the default is '' (read(p)) or the data is not the empty string.
ReadAfterWrite ==
  /\ backend \in DocumentBackends
  /\ lastStore.op = "read" /\ Completed
  /\ wrote[LastPath].last = "write"
  /\ (lastStore.args.default = "" \/ wrote[LastPath].data # "")

\* read() returned path = p, data = d and the updatedAt of the write,
\* whatever appendPreWrite returned under those names.
OwnAttributesKept ==
  /\ ReadObject["path"] = LastPath
  /\ ReadObject["data"] = wrote[LastPath].data
  /\ ReadObject["updatedAt"] = wrote[LastPath].at

\* The attribute names write() sets itself, after the spread of
\* appendPreWrite's result.
ReservedNames(kind) ==
  IF kind = "Cosmos" THEN {"id", "path", "data", "updatedAt"}
                     ELSE {"path", "data", "updatedAt"}

C21_ReadDefaultOnlyWhenAbsent ==
  (lastStore.op = "read" /\ Completed) =>
    IF store[LastPath] = EmptyStore(backend)[LastPath]
      THEN DataOf(lastStore.ret.value) = lastStore.args.default
      ELSE DataOf(lastStore.ret.value) = store[LastPath].data

\* The position in events of the activation's latest lock() call; 0 if none.
LastLockIndex ==
  IF LockCalls = 0 THEN 0
  ELSE CHOOSE j \in 1..Len(events) :
         IsLock(events[j]) /\ \A k \in (j + 1)..Len(events) : ~IsLock(events[k])

\* A step in which the activation calls lock(pathToLock), and what that
\* call resolved with.
Attempt == pc = "call" /\ events' # events
AttemptTrue == ReturnedTrue(events'[Len(events')])
AttemptFalse == ReturnedFalse(events'[Len(events')])

\* C22 (as claimed): when an attempt's request to the table fails while no
\* record of the path exists (lock() returns false although the path is free),
\* acquireLock ends at that attempt with the backend's error: no wait, no
\* further attempt.
C22_StopsOnInfraFailure ==
  [][ (Attempt /\ table[pathToLock] = NoItem /\ AttemptFalse) =>
        /\ pc' = "done"
        /\ outcome'.kind = "thrown"
        /\ outcome'.error.name # "AcquireLockError" ]_vars

\* C23: unlock(p) returns true exactly when a record of p existed and this
\* call removed it; on a path with no record it returns false and changes no
\* record; it never changes the record of another path.
C23_UnlockReportsRemoval ==
  [][ \A c \in Callers, p \in Paths :
        CallUnlock(c, p) =>
          /\ lastCall'.ret <=> (table[p] # NoItem /\ table'[p] = NoItem)
          /\ table[p] = NoItem => (~lastCall'.ret /\ table' = table)
          /\ \A q \in Paths \ {p} : table'[q] = table[q] ]_vars

\* unlock("a.json") on a free path came back false, and the record of b.json
\* stands.
C23_Witness ==
  /\ lastCall.op = "unlock" /\ lastCall.path = "a.json"
  /\ lastCall.ret = FALSE /\ lastCall.before = NoItem
  /\ table["a.json"] = NoItem /\ table["b.json"] # NoItem

\* C24 (as claimed): an unlock(p) by a caller that does not hold p removes
\* the record of another caller (returns true, p is free), and a lock(p) by
\* any caller on the free path returns true.
C24_NoOwner ==
  [][ \A c \in Callers, p \in Paths :
        /\ ( /\ CallUnlock(c, p)
             /\ <<c, p>> \notin granted \cup holders
             /\ table[p] # NoItem )
           => (lastCall'.ret /\ table'[p] = NoItem)
        /\ (CallLock(c, p) /\ table[p] = NoItem) => lastCall'.ret ]_vars

\* C25: acquireLock ends, returning or throwing, whatever the other callers
\* do; it makes at most maxRetry lock() calls and at most maxRetry waits.
C25_Terminates ==
  /\ <>(pc = "done")
  /\ [](LockCalls <= maxRetry /\ Waits <= maxRetry)
  /\ [](pc = "done" <=> outcome # None)

\* Three attempts lost to another caller, who took the path after it had been
\* freed: acquireLock ended with AcquireLockError.
C25_Witness ==
  /\ pc = "done" /\ Failed /\ maxRetry = 3 /\ LockCalls = 3
  /\ freedAt >= 1 /\ table[pathToLock] # NoItem

\* C26 (as claimed): when the record of pathToLock was removed while the
\* activation was suspended after an unsuccessful attempt, and nobody locked
\* the path since, the activation's next attempt returns true and acquireLock
\* returns.
C26_NextAttemptWins ==
  [][ ( /\ Attempt
        /\ LastLockIndex >= 1 /\ freedAt >= LastLockIndex
        /\ table[pathToLock] = NoItem )
      => (AttemptTrue /\ pc' = "done" /\ outcome' = Returned) ]_vars

\* C27: the table alone decides who gets the path: an attempt of the
\* activation returns true exactly when its put created the record, which
\* takes the path to be free at that instant, however many attempts and waits
\* came before; a returned true ends acquireLock at once, and AcquireLockError
\* means that every attempt returned false. (That a waiting caller can lose
\* a freed path to a later one is the reachable state C27_Witness.)
C27_NoQueue ==
  /\ [][ Attempt =>
           /\ AttemptTrue <=> (table[pathToLock] = NoItem /\ table'[pathToLock] # NoItem)
           /\ AttemptTrue => outcome' = Returned ]_vars
  /\ [](Failed => (AllAttemptsFalse /\ LockCalls = maxRetry))

\* acquireLock failed after all its attempts, although the path, held by
\* someone else at the start, was freed after its first attempt and before its
\* last: another caller's lock() got there first.
C27_Witness ==
  /\ Failed /\ maxRetry >= 2 /\ ~heldAtStart
  /\ freedAt >= 1 /\ freedAt < LastLockIndex
  /\ table[pathToLock] # NoItem

\* C28: when the caller holds pathToLock already and the record is not
\* removed (by an unlock or by expiry), every attempt of its acquireLock
\* returns false, the record stays as it was, and acquireLock ends with
\* AcquireLockError after maxRetry attempts.
C28_NotReentrant ==
  (heldAtStart /\ freedAt = -1) =>
    /\ \A j \in 1..Len(events) : ~ReturnedTrue(events[j])
    /\ table[pathToLock] = [id |-> pathToLock, createdAt |-> 0,
                            expireAt |-> timeToLiveDurationInSeconds]
    /\ pc = "done" => (Failed /\ LockCalls = maxRetry)

\* The holder's own acquireLock with maxRetry = 2 failed after two attempts.
C28_Witness ==
  /\ heldAtStart /\ freedAt = -1 /\ maxRetry = 2
  /\ pc = "done" /\ Failed /\ LockCalls = 2
  /\ table[pathToLock] # NoItem

\* A step of the activation.
ActivationStep == acquireVars' # acquireVars

\* C30: acquireLock calls nothing but lock(pathToLock); a step of it changes
\* the table only by an attempt that returns true, which creates the record of
\* pathToLock and touches no other path; so a call that ended with
\* AcquireLockError created no record and a call that returned created
\* exactly one, for pathToLock.
C30_OnlyRequestedLock ==
  /\ [](\A j \in 1..Len(events) :
          /\ events[j].ev \in {"lock", "wait"}
          /\ IsLock(events[j]) => events[j].path = pathToLock)
  /\ [][ ActivationStep =>
           IF Attempt /\ AttemptTrue
             THEN /\ table[pathToLock] = NoItem
                  /\ table' = [table EXCEPT ![pathToLock] =
                                 LockParams(pathToLock, getTimestamp).Item]
             ELSE table' = table ]_vars
  /\ [](Failed => \A j \in 1..Len(events) : ~ReturnedTrue(events[j]))
  /\ [](outcome = Returned =>
          Cardinality({j \in 1..Len(events) : ReturnedTrue(events[j])}) = 1)

\* acquireLock returned at its second attempt; the record of the other path,
\* which another caller holds, stands.
C30_Witness ==
  /\ outcome = Returned /\ LockCalls = 2
  /\ table[pathToLock] # NoItem
  /\ \E q \in Paths \ {pathToLock} : table[q] # NoItem

\* C29: no call of the seven methods, returning or throwing, changes
\* this.params (the only field of the class): the manager refers to the
\* backends it was constructed with; and what a call returns and does is
\* what the guard and the delegation give on the backends as they are, whatever
\* calls came before.
C29_StatelessRouter ==
  /\ [][ params' = params /\ ctorOutcome' = ctorOutcome ]_vars
  /\ [][ IsFacadeStep =>
           \E fault \in BOOLEAN :
             LET f == FacadeCall(params, lastOp'.op, lastOp'.args, files, table, fault)
             IN facadeRet' = f.ret /\ files' = f.files /\ table' = f.table ]_vars

\* After a write and a lock through the manager, exists() through the same
\* manager returns true while the lock record is stored.
C29_Witness ==
  /\ BothSupplied /\ lastOp.op = "exists"
  /\ facadeRet = ReturnedValue(Bool(TRUE))
  /\ \E p \in Paths : table[p] # NoItem

\* C31: every wait of acquireLock is waitForTime(retryWait) with the
\* retryWait of the call (the argument, or 400 when omitted): the same
\* number of milliseconds at every attempt index and after every outcome,
\* and retryWait itself never changes during the activation.
C31_FixedInterval ==
  /\ retryWait = DefaultedRetryWait(acquireArgs.retryWait)
  /\ \A k \in 1..Len(events) : IsWait(events[k]) => events[k].ms = retryWait
  /\ \A k \in 1..Len(events), j \in 1..Len(events) :
       IsWait(events[k]) /\ IsWait(events[j]) => events[k].ms = events[j].ms

\* Two waits of 100 ms each were made, at attempt indexes 0 and 1.
C31_Witness ==
  /\ acquireArgs.retryWait = Given(100) /\ Waits >= 2
  /\ \A k \in 1..Len(events) : IsWait(events[k]) => events[k].ms = 100

\* C32: with maxRetry and retryWait omitted the activation runs with
\* maxRetry = 5 and retryWait = 400; when every lock() returned false it ends
\* with LockAcquisitionFailed after exactly 5 lock() calls, and it does not
\* end before the fifth.
C32_Defaults ==
  (~acquireArgs.maxRetry.given /\ ~acquireArgs.retryWait.given) =>
    /\ maxRetry = 5 /\ retryWait = 400
    /\ \A k \in 1..Len(events) : IsWait(events[k]) => events[k].ms = 400
    /\ AllAttemptsFalse =>
         /\ LockCalls <= 5
         /\ pc = "done" <=> (Failed /\ LockCalls = 5)

\* The call with both arguments omitted failed after five false attempts.
C32_Witness ==
  /\ acquireArgs = [maxRetry |-> Omitted, retryWait |-> Omitted]
  /\ pc = "done" /\ Failed /\ AllAttemptsFalse /\ LockCalls = 5

\* C33: every record of the lock table is stored under the path it locks
\* (id = path) with expireAt = createdAt + timeToLiveDurationInSeconds, the
\* duration being 900 when the constructor argument is omitted; the record a
\* successful lock(p) creates has createdAt = the time of the call; and for
\* a duration >= 0, expireAt >= createdAt.
C33_RecordShape ==
  /\ [](\A p \in Paths : table[p] # NoItem =>
          /\ table[p].id = p
          /\ table[p].expireAt = table[p].createdAt + timeToLiveDurationInSeconds
          /\ ~timeToLiveArg.given => table[p].expireAt = table[p].createdAt + 900
          /\ timeToLiveDurationInSeconds >= 0 =>
               table[p].expireAt >= table[p].createdAt)
  /\ [][ \A c \in Callers, p \in Paths :
           (CallLock(c, p) /\ lastCall'.ret) =>
             table'[p] = [id |-> p, createdAt |-> now,
                          expireAt |-> now + timeToLiveDurationInSeconds] ]_vars

\* A lock taken at time 1 with the default duration expires at 901.
C33_Witness ==
  /\ ~timeToLiveArg.given
  /\ \E p \in Paths : table[p] = [id |-> p, createdAt |-> 1, expireAt |-> 901]

=============================================================================
